---- MODULE Spec2Model ----
(***************************************************************************)
(* Model of opentelemetry.ext.pymemcache: the instrumentor that wraps the  *)
(* commands of pymemcache.client.base.Client with a tracing wrapper.       *)
(*                                                                         *)
(* The method table of the Client type maps each command name to a stack   *)
(* of wrapper layers around the original method: <<>> is the original      *)
(* method, index 1 is the innermost wrapper (its wrapped target is the     *)
(* original) and the last element is the callable installed in the table.  *)
(* One client call is followed step by step through the wrapper layers,    *)
(* the span scope, the guarded attribute block and the original method.    *)
(* Configuration calls are taken between client calls: the module does    *)
(* not synchronise them with calls in flight and leaves that to its caller.*)
(* A failure inside the attribute block is an Exception, the class the     *)
(* handler catches.                                                        *)
(***************************************************************************)
EXTENDS Integers, Sequences, FiniteSets, TLC

\* Bound on the number of _instrument/_uninstrument calls of one behaviour.
MaxOps == 3

_RAWCMD == "db.statement"
_CMD == "memcached.command"
__name__ == "opentelemetry.ext.pymemcache"

COMMANDS ==
    { "set", "set_many", "add", "replace", "append", "prepend", "cas",
      "get", "get_many", "gets", "gets_many", "delete", "delete_many",
      "incr", "decr", "touch", "stats", "version", "flush_all", "quit",
      "set_multi", "get_multi" }

\* Positional arguments: a string key, or a value that has no rendering.
StrArg(s) == [type |-> "str", text |-> s]
IntArg == [type |-> "int", text |-> "0"]
ArgLists == { <<>>, <<StrArg("k")>>, <<StrArg("a"), IntArg, StrArg("b")>>, <<IntArg>> }
KwargSets == { "{}", "{noreply: True}" }

\* The server endpoint configured on the client instance.
Servers ==
    { [kind |-> "tuple", host |-> "localhost", port |-> "11211"],
      [kind |-> "none", host |-> "", port |-> ""] }

\* What the original (unwrapped) command does: it returns or it raises.
Outcomes == { [kind |-> "return", val |-> "STORED"],
              [kind |-> "raise", val |-> "MemcacheError"] }
NoOutcome == [kind |-> "none", val |-> ""]
NoCall == [cmd |-> "", args |-> <<>>, kwargs |-> "", instance |-> [kind |-> "none", host |-> "", port |-> ""]]

VARIABLES
    table,          \* Client's method table: command -> stack of wrapper layers
    raised,         \* whether the last _instrument/_uninstrument call raised
    instruments,    \* number of _instrument calls so far
    uninstruments,  \* number of _uninstrument calls so far
    noopUninstruments, \* _uninstrument calls that found the methods unwrapped
    lastOp,         \* the last configuration call
    pc,             \* position of the client call in flight
    call,           \* the call as the caller made it
    chain,          \* the callable the call was dispatched to (layers)
    depth,          \* the layer whose wrapper() is running
    spans,          \* the spans the call has created so far
    events,         \* the call's events in order
    origCalls,      \* the invocations the original method received
    origOutcome,    \* what the original method did
    result,         \* what travels back to the caller
    failedAt        \* the attribute step that failed, "" when none has

vars == << table, raised, instruments, uninstruments, noopUninstruments, lastOp,
           pc, call, chain, depth, spans, events, origCalls, origOutcome,
           result, failedAt >>

configVars == << table, raised, instruments, uninstruments, noopUninstruments, lastOp >>
callVars == << pc, call, chain, depth, spans, events, origCalls, origOutcome,
               result, failedAt >>

----------------------------------------------------------------------------
(* Pure helpers *)

RECURSIVE Join(_)
Join(strs) ==
    IF strs = <<>> THEN ""
    ELSE IF Len(strs) = 1 THEN strs[1]
    ELSE strs[1] \o " " \o Join(Tail(strs))

RECURSIVE Rendered(_)
Rendered(args) ==
    IF args = <<>> THEN <<>>
    ELSE IF Head(args).type = "str" THEN <<Head(args).text>> \o Rendered(Tail(args))
    ELSE Rendered(Tail(args))

\* util._get_query_string: the renderable arguments joined by a space.
_get_query_string(args) == Join(Rendered(args))

\* util._get_address_attributes: the peer attributes of the instance, in
\* the order the mapping yields them; keys of a missing part are omitted.
_get_address_attributes(instance) ==
    IF instance.kind = "tuple"
    THEN << <<"net.peer.name", instance.host>>, <<"net.peer.port", instance.port>> >>
    ELSE <<>>

\* get_tracer(__name__, __version__, tracer_provider): every call yields a
\* tracer object of its own, identified here by the serial number of the
\* _instrument call that obtained it; all of them carry the name __name__.
get_tracer(serial) == [id |-> serial, name |-> __name__]

FormatQueryAlwaysSpace(cmd, vals) == cmd \o " " \o vals
\* "{}{}{}".format(cmd, " " if vals else "", vals)
FormatQuery(cmd, vals) == cmd \o (IF vals # "" THEN " " ELSE "") \o vals

StartSpanWithAttributes(tracer) ==
    [name |-> _CMD, kind |-> "INTERNAL",
     attrs |-> << <<"service", tracer.name>> >>, ended |-> FALSE, tracer |-> tracer]
\* tracer.start_as_current_span(_CMD, kind=SpanKind.INTERNAL, attributes={})
StartSpan(tracer) ==
    [name |-> _CMD, kind |-> "INTERNAL", attrs |-> <<>>, ended |-> FALSE,
     tracer |-> tracer]

\* span.set_attribute(key, value) on the span of the running scope.
set_attribute(ss, key, value) ==
    [ss EXCEPT ![Len(ss)].attrs = Append(@, <<key, value>>)]

RECURSIVE SetAll(_, _)
SetAll(ss, items) ==
    IF items = <<>> THEN ss
    ELSE SetAll(set_attribute(ss, Head(items)[1], Head(items)[2]), Tail(items))

\* The scope's exit: the span is ended, the exception is not suppressed.
SpanExit(span) == [span EXCEPT !.ended = TRUE]

OpenSpans(ss) == { i \in DOMAIN ss : ~ss[i].ended }
LastOpen(ss) == CHOOSE i \in OpenSpans(ss) : \A j \in OpenSpans(ss) : j <= i

----------------------------------------------------------------------------
(* Wrapping and unwrapping *)

\* _with_tracer(tracer, cmd): the wrapper closure bound to tracer and cmd.
_with_tracer(tracer, cmd) == [tracer |-> tracer, cmd |-> cmd]

\* wrapt.wrap_function_wrapper: a new FunctionWrapper around whatever is
\* installed now.
_wrap(method, wrapper) == Append(method, wrapper)

NoMarkerCheck(layers, d) == FALSE
\* hasattr(wrapped, "__wrapped__") for the wrapped target of layer d: the
\* target of layer d is layer d - 1, or the original method when d = 1.
HasWrappedMarker(layers, d) == d > 1

_unwrapNoGuard(method) ==
    IF method = <<>>
    THEN [method |-> method, raised |-> TRUE]
    ELSE [method |-> SubSeq(method, 1, Len(method) - 1), raised |-> FALSE]
_unwrapAllLayers(method) == [method |-> <<>>, raised |-> FALSE]
\* _unwrap(obj, attr): an installed wrapper (an ObjectProxy that has
\* __wrapped__) is replaced by its __wrapped__; anything else is left alone.
_unwrap(method) ==
    IF method # <<>>
    THEN [method |-> SubSeq(method, 1, Len(method) - 1), raised |-> FALSE]
    ELSE [method |-> method, raised |-> FALSE]

AllOriginal == \A c \in COMMANDS : table[c] = <<>>

----------------------------------------------------------------------------
Init ==
    /\ table = [c \in COMMANDS |-> <<>>]
    /\ raised = FALSE
    /\ instruments = 0
    /\ uninstruments = 0
    /\ noopUninstruments = 0
    /\ lastOp = "none"
    /\ pc = "idle"
    /\ call = NoCall
    /\ chain = <<>>
    /\ depth = 0
    /\ spans = <<>>
    /\ events = <<>>
    /\ origCalls = <<>>
    /\ origOutcome = NoOutcome
    /\ result = NoOutcome
    /\ failedAt = ""

\* PymemcacheInstrumentor._instrument(**kwargs)
_instrument ==
    /\ pc = "idle"
    /\ instruments + uninstruments < MaxOps
    /\ LET tracer == get_tracer(instruments + 1) IN
       table' = [c \in COMMANDS |-> _wrap(table[c], _with_tracer(tracer, c))]
    /\ raised' = FALSE
    /\ instruments' = instruments + 1
    /\ lastOp' = "instrument"
    /\ UNCHANGED << uninstruments, noopUninstruments >>
    /\ UNCHANGED callVars

\* PymemcacheInstrumentor._uninstrument()
_uninstrument ==
    /\ pc = "idle"
    /\ instruments + uninstruments < MaxOps
    /\ table' = [c \in COMMANDS |-> _unwrap(table[c]).method]
    /\ raised' = (\E c \in COMMANDS : _unwrap(table[c]).raised)
    /\ uninstruments' = uninstruments + 1
    /\ noopUninstruments' = noopUninstruments + (IF AllOriginal THEN 1 ELSE 0)
    /\ lastOp' = "uninstrument"
    /\ UNCHANGED instruments
    /\ UNCHANGED callVars

\* The caller invokes client.<cmd>(*args, **kwargs): the attribute lookup
\* yields the callable installed in the method table.
Invoke(cmd, args, kwargs, instance) ==
    /\ pc = "idle"
    /\ call' = [cmd |-> cmd, args |-> args, kwargs |-> kwargs, instance |-> instance]
    /\ chain' = table[cmd]
    /\ depth' = Len(table[cmd])
    /\ pc' = IF table[cmd] = <<>> THEN "call_wrapped" ELSE "wrapper"
    /\ UNCHANGED << spans, events, origCalls, origOutcome, result, failedAt >>
    /\ UNCHANGED configVars

\* wrapper(wrapped, instance, args, kwargs) of layer depth.
Wrapper ==
    /\ pc = "wrapper"
    /\ IF HasWrappedMarker(chain, depth)
       THEN \* return wrapped(*args, **kwargs)
            /\ depth' = depth - 1
            /\ pc' = "wrapper"
            /\ UNCHANGED << spans, events >>
       ELSE \* return func(tracer, cmd, wrapped, instance, args, kwargs)
            /\ spans' = Append(spans, StartSpan(chain[depth].tracer))
            /\ events' = Append(events, "start")
            /\ pc' = "attr_service"
            /\ UNCHANGED depth
    /\ UNCHANGED << call, chain, origCalls, origOutcome, result, failedAt >>
    /\ UNCHANGED configVars

NextAttrStep(step) ==
    IF step = "service" THEN "attr_query"
    ELSE IF step = "query" THEN "attr_connection"
    ELSE "call_wrapped"

ExceptPropagates(step) == [pc |-> "with_exit", propagate |-> TRUE]
ExceptPerStep(step) == [pc |-> NextAttrStep(step), propagate |-> FALSE]
\* except Exception: pass -- one handler around the whole attribute block.
ExceptHandler(step) == [pc |-> "call_wrapped", propagate |-> FALSE]

AttrFailure(step) ==
    /\ failedAt' = (IF failedAt = "" THEN step ELSE failedAt)
    /\ pc' = ExceptHandler(step).pc
    /\ result' = IF ExceptHandler(step).propagate
                 THEN [kind |-> "raise", val |-> "AttributeError"]
                 ELSE result

\* span.set_attribute("service", tracer.instrumentation_info.name)
AttrService ==
    /\ pc = "attr_service"
    /\ \/ /\ spans' = set_attribute(spans, "service", chain[depth].tracer.name)
          /\ events' = Append(events, "set_attribute")
          /\ pc' = "attr_query"
          /\ UNCHANGED << result, failedAt >>
       \/ /\ AttrFailure("service")
          /\ UNCHANGED << spans, events >>
    /\ UNCHANGED << call, chain, depth, origCalls, origOutcome >>
    /\ UNCHANGED configVars

\* vals = _get_query_string(args); query = ...; span.set_attribute(_RAWCMD, query)
AttrQuery ==
    /\ pc = "attr_query"
    /\ \/ /\ LET vals == _get_query_string(call.args)
                 query == FormatQuery(chain[depth].cmd, vals)
             IN spans' = set_attribute(spans, _RAWCMD, query)
          /\ events' = Append(events, "set_attribute")
          /\ pc' = "attr_connection"
          /\ UNCHANGED << result, failedAt >>
       \/ /\ AttrFailure("query")
          /\ UNCHANGED << spans, events >>
    /\ UNCHANGED << call, chain, depth, origCalls, origOutcome >>
    /\ UNCHANGED configVars

\* _set_connection_attributes(span, instance): the first n items are set;
\* the loop then ends (n is the number of items) or the step fails: in
\* _get_address_attributes (n = 0) or at the item after the n-th.
_set_connection_attributes ==
    /\ pc = "attr_connection"
    /\ LET items == _get_address_attributes(call.instance) IN
       \E n \in 0..Len(items), ok \in BOOLEAN :
         /\ ok => n = Len(items)
         /\ ~ok => (n < Len(items) \/ n = 0)
         /\ spans' = SetAll(spans, SubSeq(items, 1, n))
         /\ events' = events \o [i \in 1..n |-> "set_attribute"]
         /\ IF ok
            THEN /\ pc' = "call_wrapped"
                 /\ UNCHANGED << result, failedAt >>
            ELSE AttrFailure("connection")
    /\ UNCHANGED << call, chain, depth, origCalls, origOutcome >>
    /\ UNCHANGED configVars

\* return wrapped(*args, **kwargs): the value is returned, an exception
\* is left to propagate.
ReturnWrapped(outcome) == outcome

\* wrapped(*args, **kwargs) called by the layer that ran func (or by the
\* caller when the method is not wrapped).
CallWrapped ==
    /\ pc = "call_wrapped"
    /\ IF depth > 1
       THEN \* the wrapped target is itself a wrapper
            /\ depth' = depth - 1
            /\ pc' = "wrapper"
            /\ UNCHANGED << spans, events, origCalls, origOutcome, result >>
       ELSE \E o \in Outcomes :
            /\ origCalls' = Append(origCalls, [args |-> call.args, kwargs |-> call.kwargs])
            /\ origOutcome' = o
            /\ result' = IF chain = <<>> THEN o ELSE ReturnWrapped(o)
            /\ events' = Append(events, "invoke")
            /\ pc' = IF OpenSpans(spans) = {} THEN "done" ELSE "with_exit"
            /\ UNCHANGED << spans, depth >>
    /\ UNCHANGED << call, chain, failedAt >>
    /\ UNCHANGED configVars

WithExitOnReturnOnly ==
    /\ pc = "with_exit"
    /\ OpenSpans(spans) # {}
    /\ IF result.kind = "return"
       THEN /\ spans' = [spans EXCEPT ![LastOpen(spans)] = SpanExit(@)]
            /\ events' = Append(events, "end")
            /\ pc' = IF Cardinality(OpenSpans(spans)) > 1 THEN "with_exit" ELSE "done"
       ELSE /\ pc' = "done"
            /\ UNCHANGED << spans, events >>
    /\ UNCHANGED << call, chain, depth, origCalls, origOutcome, result, failedAt >>
    /\ UNCHANGED configVars
\* Leaving the with block, by return or by exception.
WithExit ==
    /\ pc = "with_exit"
    /\ OpenSpans(spans) # {}
    /\ spans' = [spans EXCEPT ![LastOpen(spans)] = SpanExit(@)]
    /\ events' = Append(events, "end")
    /\ pc' = IF Cardinality(OpenSpans(spans)) > 1 THEN "with_exit" ELSE "done"
    /\ UNCHANGED << call, chain, depth, origCalls, origOutcome, result, failedAt >>
    /\ UNCHANGED configVars

\* The caller has the result; the client is ready for the next call.
Return ==
    /\ pc = "done"
    /\ pc' = "idle"
    /\ call' = NoCall
    /\ chain' = <<>>
    /\ depth' = 0
    /\ spans' = <<>>
    /\ events' = <<>>
    /\ origCalls' = <<>>
    /\ origOutcome' = NoOutcome
    /\ result' = NoOutcome
    /\ failedAt' = ""
    /\ UNCHANGED configVars

Next ==
    \/ _instrument
    \/ _uninstrument
    \/ \E cmd \in COMMANDS, args \in ArgLists, kwargs \in KwargSets, instance \in Servers :
          Invoke(cmd, args, kwargs, instance)
    \/ Wrapper
    \/ AttrService
    \/ AttrQuery
    \/ _set_connection_attributes
    \/ CallWrapped
    \/ WithExit
    \/ Return

Spec == Init /\ [][Next]_vars

----------------------------------------------------------------------------
(* Properties *)

LastSpan == spans[Len(spans)]
Keys(attrs) == [i \in DOMAIN attrs |-> attrs[i][1]]
Wrapped == chain # <<>>

\* C1: after one or more _instrument calls and no _uninstrument call, every
\* invocation of every command of COMMANDS creates exactly one span, also
\* when _instrument ran more than once before the invocation.
C1_OneSpanPerCall ==
    \A c \in COMMANDS :
        (instruments >= 1 /\ uninstruments = 0 /\ call.cmd = c) =>
            /\ Len(spans) <= 1
            /\ pc = "done" => Len(spans) = 1

C1_Witness ==
    /\ instruments >= 2 /\ uninstruments = 0
    /\ pc = "done" /\ Len(chain) >= 2 /\ Len(spans) = 1

\* C2: after _uninstrument, whatever _instrument calls came before, every
\* command is the original method again: a call creates no span and the
\* caller gets what the original method gave.
C2_DeactivateRestores ==
    lastOp = "uninstrument" =>
        /\ AllOriginal
        /\ pc = "done" => (spans = <<>> /\ result = origOutcome)

\* C3: in every state of the method table each command is wrapped at most
\* once: the original method, or one wrapper whose target is the original.
C3_WrappedAtMostOnce == \A c \in COMMANDS : Len(table[c]) <= 1

\* C4: a wrapped call is to its caller what the unwrapped call is: the
\* original method is invoked exactly once with the caller's arguments and
\* the caller receives its return value or its exception, whatever happens
\* while the attributes are computed.
C4_CallerSeesOriginal ==
    /\ Len(origCalls) <= 1
    /\ pc = "done" =>
        /\ origCalls = << [args |-> call.args, kwargs |-> call.kwargs] >>
        /\ origOutcome \in Outcomes
        /\ result = origOutcome

C4_Witness ==
    /\ pc = "done" /\ Wrapped /\ failedAt = "query"
    /\ result = [kind |-> "return", val |-> "STORED"]
    /\ origCalls = << [args |-> call.args, kwargs |-> call.kwargs] >>

\* C5: when the call leaves the wrapper every span it opened is ended,
\* whether the original method returned or raised, and an exception of the
\* original method reaches the caller as it was raised.
C5_SpanEndedExceptionPropagates ==
    pc = "done" =>
        /\ \A i \in DOMAIN spans : spans[i].ended
        /\ origOutcome.kind = "raise" => result = origOutcome

C5_Witness ==
    /\ pc = "done" /\ Len(spans) = 1 /\ spans[1].ended
    /\ origOutcome.kind = "raise" /\ result = origOutcome

\* C6: _uninstrument on a method table in which nothing is wrapped (never
\* instrumented, or already restored) raises nothing and leaves the method
\* of every command as it is.
C6_DeactivateIsNoopWhenUnwrapped ==
    [][(_uninstrument /\ AllOriginal) => (table' = table /\ raised' = FALSE)]_vars

C6_Witness ==
    /\ lastOp = "uninstrument" /\ noopUninstruments >= 2
    /\ AllOriginal /\ raised = FALSE

\* C7: the command string set on the span is the invoked command's name,
\* followed by one space and the rendered arguments when the rendering is
\* not empty, and the bare name when it is; it is set whenever the
\* attribute computation succeeds.
C7_CommandString ==
    /\ \A i \in DOMAIN spans : \A j \in DOMAIN spans[i].attrs :
         spans[i].attrs[j][1] = _RAWCMD =>
            LET v == spans[i].attrs[j][2]
                r == _get_query_string(call.args)
            IN /\ r = "" => v = call.cmd
               /\ r # "" => v = call.cmd \o " " \o r
               /\ (call.cmd = "get" /\ call.args = <<StrArg("k")>>) => v = "get k"
               /\ (call.cmd = "version" /\ call.args = <<>>) => v = "version"
               /\ (call.cmd = "set" /\ call.args = <<IntArg>>) => v = "set"
    /\ (pc = "done" /\ Wrapped /\ failedAt = "") =>
         \E j \in DOMAIN LastSpan.attrs : LastSpan.attrs[j][1] = _RAWCMD

C7_Witness ==
    /\ pc = "done" /\ call.cmd = "version" /\ call.args = <<>>
    /\ Len(spans) = 1 /\ Len(spans[1].attrs) >= 2
    /\ spans[1].attrs[2] = <<_RAWCMD, "version">>

\* C8: within a wrapped call the span is created first (kind INTERNAL, the
\* fixed name, no attributes), then the attributes are set, then the
\* original command is invoked, then the span is closed.
C8_EventOrder ==
    /\ \A i \in DOMAIN events :
         /\ events[i] = "start" => i = 1
         /\ events[i] = "set_attribute" =>
              /\ \E j \in 1..(i-1) : events[j] = "start"
              /\ \A j \in 1..(i-1) : events[j] \notin {"invoke", "end"}
         /\ (events[i] = "invoke" /\ Wrapped) =>
              /\ \E j \in 1..(i-1) : events[j] = "start"
              /\ \A j \in 1..(i-1) : events[j] # "end"
         /\ events[i] = "end" => \E j \in 1..(i-1) : events[j] = "invoke"
    /\ \A i \in DOMAIN spans : spans[i].name = _CMD /\ spans[i].kind = "INTERNAL"
    /\ pc = "attr_service" => (spans # <<>> /\ LastSpan.attrs = <<>> /\ ~LastSpan.ended)
    /\ (pc = "done" /\ Wrapped) =>
         /\ Len(events) >= 3
         /\ events[1] = "start"
         /\ events[Len(events) - 1] = "invoke"
         /\ events[Len(events)] = "end"

C8_Witness ==
    /\ pc = "done"
    /\ events = << "start", "set_attribute", "set_attribute", "set_attribute",
                   "set_attribute", "invoke", "end" >>

\* C9: the attributes are set in the order service, command string,
\* connection attributes, and the first failure ends the population: what
\* was set before it stays on the span, what comes after it is absent.
ExpectedKeys == << "service", _RAWCMD >> \o Keys(_get_address_attributes(call.instance))

C9_SequentialAttributes ==
    (pc \in {"call_wrapped", "with_exit", "done"} /\ spans # <<>>) =>
        LET k == Keys(LastSpan.attrs) IN
        /\ k = SubSeq(ExpectedKeys, 1, Len(k))
        /\ failedAt = "" => k = ExpectedKeys
        /\ failedAt = "service" => k = <<>>
        /\ failedAt = "query" => k = << "service" >>
        /\ failedAt = "connection" =>
              /\ Len(k) >= 2
              /\ Len(k) < Len(ExpectedKeys) \/ Len(k) = 2

C9_Witness ==
    /\ pc = "done" /\ failedAt = "connection"
    /\ Len(spans) = 1 /\ Keys(spans[1].attrs) = << "service", _RAWCMD, "net.peer.name" >>

====
